---- MODULE Spec2Model ----
(***************************************************************************)
(* Result classes of the X DevAPI (include/mysqlx/devapi/result.h):        *)
(* Result, RowResult, SqlResult and DocResult, each a thin facade          *)
(* (Result_common<Base> plus typed accessors wrapped in CATCH_AND_WRAP)    *)
(* over an implementation object reached through Base.  The facade is      *)
(* translated from result.h; the Base classes (detail/result.h, result.cc) *)
(* are modelled after the behaviour the specification gives them.          *)
(*                                                                         *)
(* Two result objects, "a" and "b", of the same class are modelled: "a" is *)
(* constructed from a Result_init of an executed operation, "b" is         *)
(* default-constructed.  The server reply behind the Result_init is a      *)
(* sequence of results, each with or without row data.                     *)
(***************************************************************************)
EXTENDS Integers, Sequences, FiniteSets, TLC

\* ---------------------------------------------------------------- bounds
MaxRows == 3
MaxResults == 2
MaxWarn == 1
Prefetch == 2
MaxCols == 2

\* ------------------------------------------------------------- constants
Objs == {"a", "b"}
NULL == "null"
IMPL == "impl"
Kinds == {"Result", "RowResult", "SqlResult", "DocResult"}
RowKinds == {"RowResult", "SqlResult"}
NullRow == <<>>
\* The column set of a row result before it is initialised.
NoColumns == [init |-> FALSE, cols |-> <<>>]

NoIter == [obj |-> NULL, at_end |-> TRUE]

Min(x, y) == IF x < y THEN x ELSE y

Max(x, y) == IF x < y THEN y ELSE x

\* The j-th result's i-th row (or document), as the server emits it.
Row(j, i) == <<j, i>>

\* Rows from+1 .. to of result j, in server order.
Rows(j, from, to) == [i \in 1..(to - from) |-> Row(j, from + i)]

\* A result of the reply as the server describes it when it becomes the
\* current one: whether it carries row data and, if so, how many rows; the
\* number of items the statement affected, the auto-increment value it
\* generated (0: none) and the number of document identifiers it generated.
DataResults ==
  {[data |-> TRUE, rows |-> n, affected |-> 0, autoinc |-> 0, ids |-> 0] :
     n \in 0..MaxRows}

\* A table insert of three rows, an update of one row, a collection add of
\* one document.
NoDataResults ==
  {[data |-> FALSE, rows |-> 0, affected |-> 3, autoinc |-> 101, ids |-> 0],
   [data |-> FALSE, rows |-> 0, affected |-> 1, autoinc |-> 0, ids |-> 0],
   [data |-> FALSE, rows |-> 0, affected |-> 1, autoinc |-> 0, ids |-> 1]}

\* Results of SQL statements: none generates document identifiers.
AnyResults == DataResults \cup {r \in NoDataResults : r.ids = 0}

\* No result is current: the reply is used up.
NoResult ==
  [data |-> FALSE, rows |-> 0, affected |-> 0, autoinc |-> 0, ids |-> 0]

\* First results an operation returning an object of class k can produce.
FirstResults(k) == IF k = "Result" THEN NoDataResults
                   ELSE IF k = "SqlResult" THEN AnyResults ELSE DataResults

\* Number of results in the reply to an operation returning class k.
ReplyLengths(k) == IF k = "SqlResult" THEN 1..MaxResults ELSE {1}

\* Number of warnings in the reply to an operation returning class k.  The
\* warnings belong to Result_common, which all classes share: every count
\* is tried with the single-result classes, the largest one with SqlResult.
WarningCounts(k) == IF k = "SqlResult" THEN {MaxWarn} ELSE 0..MaxWarn

VARIABLES
  kind,       \* class of the two result objects
  nres,       \* number of results in the server's reply
  warn,       \* number of warnings the server attached to the reply
  m_impl,     \* Result_detail::m_impl of each object (NULL or IMPL)
  alive,      \* the implementation object has not been deleted
  heap,       \* implementation objects created and not yet deleted
  cur,        \* index in the reply of the current result (nres+1: none left)
  res,        \* the current result as the server describes it
  pos,        \* rows of the current result already handed out
  m_cols,     \* the column set of the row result, once initialised
  m_cache,    \* rows read from the server and not yet handed out
  iter,       \* the live RowList/DocList iterator: its result object, at_end
  delivered,  \* rows and documents the caller got from the current result
  last        \* the last public call: operation, object, error, value, and
              \* of a result it left behind the rows the caller got (taken)
              \* and never got (dropped)

vars == <<kind, nres, warn, m_impl, alive, heap, m_cols, cur, res, pos, m_cache, iter,
          delivered, last>>

\* ------------------------------------------------- implementation layer
\* The Base classes of the facade: Result_detail, Row_result_detail<Columns>
\* and Doc_result_detail.  Every operation yields a record: the exception it
\* throws (exc, "none" when it returns), the value it returns (ret) and the
\* cursor state it leaves (cur, res, pos, m_cache).

Ret(e, v, c, r, p, q) ==
  [exc |-> e, ret |-> v, cur |-> c, res |-> r, pos |-> p, m_cache |-> q,
   m_cols |-> IF c # cur THEN NoColumns ELSE m_cols]

\* The operation returns v and leaves the cursor as it is.
Returns(v) == Ret("none", v, cur, res, pos, m_cache)

\* The operation throws e and leaves the cursor as it is.
Throws(e) == Ret(e, NullRow, cur, res, pos, m_cache)

\* Exceptions as the implementation layer raises them, before the facade
\* wraps them.
RawInvalidState == "raw:InvalidState"
RawOutOfRange == "raw:OutOfRange"
RawFault == "raw:fault"

HasImpl(o) == m_impl[o] # NULL

\* Columns of the j-th result of the reply: consecutive results differ in
\* their column count whenever more than one count is possible.
ColsOf(j) == (j % MaxCols) + 1

\* Columns_detail<Column>::init(impl): the column set filled with the
\* columns of result j, in the order of the result.
Columns_detail_init(j) ==
  [init |-> TRUE, cols |-> [i \in 1..ColsOf(j) |-> <<"col", j, i - 1>>]]

\* The column set the row result uses: the one it has, or the one it makes
\* from the current result when it has none yet.
ColumnsNow == IF m_cols.init THEN m_cols ELSE Columns_detail_init(cur)

\* Rows of the current result read from the server so far.
Read == pos + Len(m_cache)

\* load_cache(n): read rows from the server until n rows are buffered or
\* the server has no more; the buffer afterwards.
load_cache(n) ==
  m_cache \o Rows(cur, Read, Min(res.rows, Max(Read, pos + n)))

\* Result_detail::has_data(): the current result carries rows.
has_data(o) == IF HasImpl(o) THEN Returns(res.data) ELSE Returns(FALSE)

\* Result_detail::check_result(): the exception a row accessor throws when
\* there is no implementation or the current result has no data.
check_result(o) ==
  IF HasImpl(o) /\ has_data(o).ret THEN "none" ELSE RawInvalidState

\* Result_detail::get_warning_count().
get_warning_count(o) == IF HasImpl(o) THEN Returns(warn) ELSE Returns(0)

\* Result_detail::get_affected_rows().
get_affected_rows(o) ==
  IF HasImpl(o) THEN Returns(res.affected) ELSE Returns(0)

\* Result_detail::get_auto_increment().
get_auto_increment(o) ==
  IF HasImpl(o) THEN Returns(res.autoinc) ELSE Returns(0)

\* The i-th document identifier the current result generated.
DocId(i) == <<"guid", i>>

\* Result_detail::get_document_id(): the identifier of the document added;
\* not applicable when the statement added none.
get_document_id(o) ==
  IF HasImpl(o) /\ res.ids >= 1 THEN Returns(DocId(1))
  ELSE Throws(RawInvalidState)

\* Result_detail::get_document_ids().
get_document_ids(o) ==
  Returns([i \in 1..(IF HasImpl(o) THEN res.ids ELSE 0) |-> DocId(i)])

\* The diagnostics of the reply, in the order the server sent them.
Warning(p) == <<"warning", p>>

\* Result_detail::get_warning(pos).
get_warning(o, p) ==
  IF p >= get_warning_count(o).ret THEN Throws(RawOutOfRange)
  ELSE Returns(Warning(p))

\* Result_detail::get_warnings().
get_warnings(o) ==
  Returns([p \in 1..get_warning_count(o).ret |-> Warning(p - 1)])

\* A row accessor that found the result usable leaves the column set
\* initialised; r is what the accessor did otherwise.
with_columns(o, r) ==
  IF check_result(o) # "none" THEN r ELSE [r EXCEPT !.m_cols = ColumnsNow]

\* Result_detail::Impl: take the next row (or document) of the current
\* result, reading up to Prefetch rows from the server when none is
\* buffered.  ret is the row taken, NullRow when no row is left.
cursor_next(o, fault) ==
  IF check_result(o) # "none" THEN Throws(check_result(o))
  ELSE IF m_cache = <<>> /\ Read < res.rows /\ fault THEN Throws(RawFault)
  ELSE LET q == load_cache(Prefetch) IN
    IF q = <<>> THEN Returns(NullRow)
    ELSE Ret("none", Head(q), cur, res, pos + 1, Tail(q))

\* Row_result_detail::iterator_next(): the next row, the shape of the rows
\* being known from then on.
iterator_next(o, fault) == with_columns(o, cursor_next(o, fault))

\* Row_result_detail::get_row().
get_row(o, fault) == iterator_next(o, fault)

\* Row_result_detail::get_rows(): all rows not yet taken.
get_rows(o, fault) ==
  with_columns(o,
    IF check_result(o) # "none" THEN Throws(check_result(o))
    ELSE IF Read < res.rows /\ fault THEN Throws(RawFault)
    ELSE LET q == load_cache(res.rows) IN
      Ret("none", q, cur, res, pos + Len(q), <<>>))

\* Row_result_detail::row_count(): rows not yet taken, after reading all
\* rows the server still holds.
row_count(o, fault) ==
  IF check_result(o) # "none" THEN Throws(check_result(o))
  ELSE IF Read < res.rows /\ fault THEN Throws(RawFault)
  ELSE LET q == load_cache(res.rows) IN
    Ret("none", Len(q), cur, res, pos, q)

\* Row_result_detail::begin(): an iterator positioned on the next row.
row_begin(o, fault) == iterator_next(o, fault)

\* Row_result_detail::end(): the past-the-end iterator.
row_end(o) == Returns(NoIter)

\* Row_result_detail::col_count().
col_count(o) ==
  with_columns(o,
    IF check_result(o) # "none" THEN Throws(check_result(o))
    ELSE Returns(Len(ColumnsNow.cols)))

\* Row_result_detail::get_column(pos): the column is identified by the
\* result it belongs to and its position.
get_column(o, i) ==
  with_columns(o,
    IF check_result(o) # "none" THEN Throws(check_result(o))
    ELSE IF i >= Len(ColumnsNow.cols) THEN Throws(RawOutOfRange)
    ELSE Returns(ColumnsNow.cols[i + 1]))

\* Row_result_detail::get_columns(): the column set of the current result,
\* its columns in the order of the result.
get_columns(o) ==
  with_columns(o,
    IF check_result(o) # "none" THEN Throws(check_result(o))
    ELSE Returns(ColumnsNow.cols))

\* Columns_detail::operator[](pos) on a column set cols.
Columns_detail_at(cols, i) ==
  IF i >= Len(cols) THEN Throws(RawOutOfRange) ELSE Returns(cols[i + 1])

\* Doc_result_detail: the document cursor, with documents in place of rows.
get_doc(o, fault) == cursor_next(o, fault)

get_docs(o, fault) ==
  IF check_result(o) # "none" THEN Throws(check_result(o))
  ELSE IF Read < res.rows /\ fault THEN Throws(RawFault)
  ELSE LET q == load_cache(res.rows) IN
    Ret("none", q, cur, res, pos + Len(q), <<>>)

doc_count(o, fault) ==
  IF check_result(o) # "none" THEN Throws(check_result(o))
  ELSE IF Read < res.rows /\ fault THEN Throws(RawFault)
  ELSE LET q == load_cache(res.rows) IN
    Ret("none", Len(q), cur, res, pos, q)

doc_begin(o, fault) == cursor_next(o, fault)

doc_end(o) == Returns(NoIter)

\* Result_detail::next_result(): drop the current result with the rows not
\* yet taken and move to the next one, which the server describes as nxt;
\* FALSE when there is none.
next_result(o, fault, nxt) ==
  IF ~HasImpl(o) THEN Throws(RawInvalidState)
  ELSE IF cur > nres THEN Returns(FALSE)
  ELSE IF Read < res.rows /\ fault THEN Throws(RawFault)
  ELSE IF cur = nres THEN Ret("none", FALSE, cur + 1, NoResult, 0, <<>>)
  ELSE Ret("none", TRUE, cur + 1, nxt, 0, <<>>)

\* CATCH_AND_WRAP: whatever the implementation layer throws leaves the
\* facade as a mysqlx::Error of the matching kind.
Wrap(e) ==
  CASE e = "none" -> "none"
    [] e = RawInvalidState -> "InvalidState"
    [] e = RawOutOfRange -> "OutOfRange"
    [] OTHER -> "Propagated"

CATCH_AND_WRAP(r) == [r EXCEPT !.exc = Wrap(r.exc)]

\* Result_detail::operator=(Result_detail&&) on this = dst, other = src:
\* the implementation dst held is deleted, dst takes over the one of src,
\* and src is left without one.
detail_move(dst, src) ==
  IF HasImpl(dst)
    THEN [exc |-> "none", alive |-> FALSE, heap |-> heap - 1, cur |-> 1,
          m_cols |-> NoColumns,
          res |-> NoResult, pos |-> 0, m_cache |-> <<>>,
          m_impl |-> [m_impl EXCEPT ![dst] = m_impl[src], ![src] = NULL]]
    ELSE [exc |-> "none", alive |-> alive, heap |-> heap, cur |-> cur,
          m_cols |-> m_cols,
          res |-> res, pos |-> pos, m_cache |-> m_cache,
          m_impl |-> [m_impl EXCEPT ![dst] = m_impl[src], ![src] = NULL]]

\* Result_detail::~Result_detail(): the implementation the object holds is
\* deleted.
detail_dtor(o) ==
  IF HasImpl(o)
    THEN [exc |-> "none", alive |-> FALSE, heap |-> heap - 1, cur |-> 1,
          m_cols |-> NoColumns,
          res |-> NoResult, pos |-> 0, m_cache |-> <<>>,
          m_impl |-> [m_impl EXCEPT ![o] = NULL]]
    ELSE [exc |-> "none", alive |-> alive, heap |-> heap, cur |-> cur,
          m_cols |-> m_cols,
          res |-> res, pos |-> pos, m_cache |-> m_cache,
          m_impl |-> m_impl]

\* Result_detail::operator=(Result_detail&&) on this = dst with a temporary
\* made from a new Result_init, as in dst = op.execute(): the temporary's
\* implementation is created, the one dst held is deleted, dst takes over
\* the new one, positioned on its first result.
detail_move_init(dst, first) ==
  [exc |-> "none", alive |-> TRUE, m_cols |-> NoColumns,
   heap |-> IF HasImpl(dst) THEN heap ELSE heap + 1,
   cur |-> 1, res |-> first, pos |-> 0, m_cache |-> <<>>,
   m_impl |-> [m_impl EXCEPT ![dst] = IMPL]]

\* Iterator::operator++ of RowList::iterator and DocList::iterator: the
\* iterator asks the result it was made from for the next item.
iterator_inc(o, fault) ==
  CATCH_AND_WRAP(IF kind = "DocResult" THEN get_doc(o, fault)
                 ELSE iterator_next(o, fault))

\* ----------------------------------------------------------- the facade
\* Result_common<Base>

Result_common_default == NULL

Result_common_init == IMPL

\* getWarningCount() that insists on an implementation object.
getWarningCount_checked(o) ==
  IF HasImpl(o) THEN CATCH_AND_WRAP(get_warning_count(o))
  ELSE CATCH_AND_WRAP(Throws(RawInvalidState))

getWarningCount(o) == CATCH_AND_WRAP(get_warning_count(o))

getWarnings(o) == CATCH_AND_WRAP(get_warnings(o))

\* getWarning() that takes positions to start at one.
getWarning_from_one(o, p) ==
  IF p = 0 THEN CATCH_AND_WRAP(Throws(RawOutOfRange))
  ELSE CATCH_AND_WRAP(get_warning(o, p - 1))

getWarning(o, p) == CATCH_AND_WRAP(get_warning(o, p))

Result_common_move_ctor(dst, src) == CATCH_AND_WRAP(detail_move(dst, src))

\* Move assignment that copies the pointer and leaves it in the source too.
Result_common_assign_shallow(dst, src) ==
  LET r == CATCH_AND_WRAP(detail_move(dst, src)) IN
    [r EXCEPT !.m_impl = [m_impl EXCEPT ![dst] = m_impl[src]]]

\* Move assignment that overwrites the pointer of the destination without
\* deleting what it pointed to.
Result_common_assign_leak(dst, src) ==
  LET r == CATCH_AND_WRAP(detail_move(dst, src)) IN
    [r EXCEPT !.heap = heap, !.alive = alive]

Result_common_assign(dst, src) == CATCH_AND_WRAP(detail_move(dst, src))

\* Move assignment from the temporary an execute() returns.
Result_common_assign_init(dst, first) ==
  CATCH_AND_WRAP(detail_move_init(dst, first))

\* The implicit destructor of a result class runs the one of its Base.
Result_common_dtor(o) == CATCH_AND_WRAP(detail_dtor(o))

\* RowResult (and SqlResult, which inherits these)

\* getColumnCount() that answers 0 instead of reporting an error.
RowResult_getColumnCount_silent(o) ==
  LET r == CATCH_AND_WRAP(col_count(o)) IN
    IF r.exc = "none" THEN r ELSE [r EXCEPT !.exc = "none", !.ret = 0]

RowResult_getColumnCount(o) == CATCH_AND_WRAP(col_count(o))

Result_getAffectedItemsCount(o) == CATCH_AND_WRAP(get_affected_rows(o))

\* getAutoIncrementValue() that treats the absence of a value as an error.
Result_getAutoIncrementValue_strict(o) ==
  LET r == CATCH_AND_WRAP(get_auto_increment(o)) IN
    IF r.exc = "none" /\ r.ret = 0 THEN [r EXCEPT !.exc = "InvalidState"] ELSE r

Result_getAutoIncrementValue(o) == CATCH_AND_WRAP(get_auto_increment(o))

Result_getDocumentId(o) == CATCH_AND_WRAP(get_document_id(o))

Result_getDocumentIds(o) == CATCH_AND_WRAP(get_document_ids(o))

SqlResult_getAffectedRowsCount(o) == CATCH_AND_WRAP(get_affected_rows(o))

SqlResult_getAutoIncrementValue(o) == CATCH_AND_WRAP(get_auto_increment(o))

\* getColumn() that hands out the last column for a position past the end.
RowResult_getColumn_clamped(o, i) ==
  LET r == CATCH_AND_WRAP(get_column(o, i)) IN
    IF r.exc = "OutOfRange"
      THEN CATCH_AND_WRAP(get_column(o, ColsOf(cur) - 1)) ELSE r

RowResult_getColumn(o, i) == CATCH_AND_WRAP(get_column(o, i))

RowResult_getColumns(o) == CATCH_AND_WRAP(get_columns(o))

\* Columns::operator[] is the one of Columns_detail, made public by a using
\* declaration: nothing is caught on the way.
Columns_at(cols, i) == Columns_detail_at(cols, i)

\* fetchOne() that hands out the current row without moving to the next one.
RowResult_fetchOne_peek(o, fault) ==
  LET r == CATCH_AND_WRAP(get_row(o, fault)) IN
    [r EXCEPT !.pos = pos, !.m_cache = m_cache]

\* fetchOne() that leaves the row result without its column set.
RowResult_fetchOne_forget(o, fault) ==
  LET r == CATCH_AND_WRAP(get_row(o, fault)) IN
    [r EXCEPT !.m_cols = NoColumns]

\* fetchOne() that starts again at the first row once the last one is taken.
RowResult_fetchOne_again(o, fault) ==
  LET r == CATCH_AND_WRAP(get_row(o, fault)) IN
    IF r.exc = "none" /\ r.ret = NullRow /\ res.rows > 0
      THEN [r EXCEPT !.ret = Row(cur, 1), !.pos = 1] ELSE r

\* fetchOne() without the try block.
RowResult_fetchOne_raw(o, fault) == get_row(o, fault)

RowResult_fetchOne(o, fault) == CATCH_AND_WRAP(get_row(o, fault))

\* fetchAll() written as a loop of single fetches: when reading from the
\* server fails, the rows taken from the buffer before that are lost.
RowResult_fetchAll_loop(o, fault) ==
  LET r == CATCH_AND_WRAP(get_rows(o, fault)) IN
    IF r.exc = "Propagated"
      THEN [r EXCEPT !.pos = pos + Len(m_cache), !.m_cache = <<>>]
      ELSE r

\* fetchAll() that hands out only the rows already buffered.
RowResult_fetchAll_buffered(o, fault) ==
  LET r == CATCH_AND_WRAP(get_rows(o, fault)) IN
    IF r.exc = "none"
      THEN [r EXCEPT !.ret = m_cache, !.pos = pos + Len(m_cache)]
      ELSE r

RowResult_fetchAll(o, fault) == CATCH_AND_WRAP(get_rows(o, fault))

\* count() that counts only the rows already buffered.
RowResult_count_buffered(o, fault) ==
  LET r == CATCH_AND_WRAP(row_count(o, fault)) IN
    IF r.exc = "none" THEN [r EXCEPT !.ret = Len(m_cache)] ELSE r

RowResult_count(o, fault) == CATCH_AND_WRAP(row_count(o, fault))

\* begin() that iterates over its own snapshot of the result, from the
\* first row, instead of the shared cursor.
RowResult_begin_snapshot(o, fault) ==
  LET r == CATCH_AND_WRAP(row_begin(o, fault)) IN
    IF r.exc = "none" /\ res.rows > 0
      THEN [r EXCEPT !.ret = Row(cur, 1), !.pos = pos, !.m_cache = m_cache]
      ELSE r

RowResult_begin(o, fault) == CATCH_AND_WRAP(row_begin(o, fault))

\* end() that finds the end by reading the rows up to it.
RowResult_end_drain(o) ==
  LET r == CATCH_AND_WRAP(get_rows(o, FALSE)) IN
    IF r.exc = "none" THEN [r EXCEPT !.ret = NoIter]
    ELSE CATCH_AND_WRAP(row_end(o))

RowResult_end(o) == CATCH_AND_WRAP(row_end(o))

\* SqlResult

SqlResult_hasData(o) == CATCH_AND_WRAP(has_data(o))

\* nextResult() that moves on without dropping what is left of the current
\* result.
SqlResult_nextResult_keep(o, fault, nxt) ==
  LET r == CATCH_AND_WRAP(next_result(o, fault, nxt)) IN
    IF r.exc = "none" /\ r.cur # cur
      THEN [r EXCEPT !.pos = pos, !.m_cache = m_cache]
      ELSE r

\* nextResult() that reports whether the current result has data instead of
\* moving on.
SqlResult_nextResult_hasData(o, fault, nxt) == CATCH_AND_WRAP(has_data(o))

\* nextResult() that moves on but keeps the outcome of the result it left.
SqlResult_nextResult_stale(o, fault, nxt) ==
  LET r == CATCH_AND_WRAP(next_result(o, fault, nxt)) IN
    IF r.cur # cur
      THEN [r EXCEPT !.res.affected = res.affected, !.res.autoinc = res.autoinc]
      ELSE r

SqlResult_nextResult(o, fault, nxt) ==
  CATCH_AND_WRAP(next_result(o, fault, nxt))

\* DocResult

DocResult_fetchOne(o, fault) == CATCH_AND_WRAP(get_doc(o, fault))

DocResult_fetchAll(o, fault) == CATCH_AND_WRAP(get_docs(o, fault))

\* count() of documents that counts the buffered ones only.
DocResult_count_cached(o, fault) ==
  LET r == CATCH_AND_WRAP(doc_count(o, fault)) IN
    IF r.exc = "none"
      THEN [r EXCEPT !.ret = Len(m_cache), !.m_cache = m_cache]
      ELSE r

DocResult_count(o, fault) == CATCH_AND_WRAP(doc_count(o, fault))

DocResult_begin(o, fault) == CATCH_AND_WRAP(doc_begin(o, fault))

DocResult_end(o) == CATCH_AND_WRAP(doc_end(o))

\* ------------------------------------------------------------- actions
TypeOK ==
  /\ kind \in Kinds
  /\ nres \in ReplyLengths(kind)
  /\ warn \in 0..MaxWarn
  /\ m_impl \in [Objs -> {NULL, IMPL}]
  /\ alive \in BOOLEAN
  /\ heap \in 0..Cardinality(Objs)
  /\ m_cols \in {NoColumns} \cup {Columns_detail_init(j) : j \in 1..MaxResults}
  /\ cur \in 1..(nres + 1)
  /\ res \in DataResults \cup NoDataResults \cup {NoResult}
  /\ pos \in 0..MaxRows
  /\ m_cache \in Seq({Row(j, i) : j \in 1..MaxResults, i \in 1..MaxRows})
  /\ iter \in [obj : Objs \cup {NULL}, at_end : BOOLEAN]
  /\ delivered \in Seq({Row(j, i) : j \in 1..MaxResults, i \in 1..MaxRows})

Init ==
  /\ kind \in Kinds
  /\ nres \in ReplyLengths(kind)
  /\ warn \in WarningCounts(kind)
  /\ m_impl = [o \in Objs |->
                 IF o = "a" THEN Result_common_init ELSE Result_common_default]
  /\ alive = TRUE
  /\ heap = 1
  /\ m_cols = NoColumns
  /\ cur = 1
  /\ res \in FirstResults(kind)
  /\ pos = 0
  /\ m_cache = <<>>
  /\ iter = NoIter
  /\ delivered = <<>>
  /\ last = [op |-> "init", obj |-> "a", arg |-> 0, exc |-> "none", ret |-> NullRow,
             taken |-> 0, dropped |-> 0]

\* The caller sees the outcome r of calling op on o; items are the rows or
\* documents the call hands over when it returns.  The caller's record of
\* what it got starts afresh when another result becomes the current one.
CallArg(op, o, i, r, items) ==
  /\ cur' = r.cur
  /\ res' = r.res
  /\ pos' = r.pos
  /\ m_cache' = r.m_cache
  /\ m_cols' = r.m_cols
  /\ last' = [op |-> op, obj |-> o, arg |-> i, exc |-> r.exc, ret |-> r.ret,
              taken |-> IF r.cur # cur THEN pos ELSE 0,
              dropped |-> IF r.cur # cur THEN res.rows - pos ELSE 0]
  /\ delivered' = IF r.cur # cur THEN <<>>
                  ELSE IF r.exc = "none" THEN delivered \o items
                  ELSE delivered
  /\ UNCHANGED <<kind, nres, warn, m_impl, alive, heap>>

\* The iterator of o that stands on row: one that has no row to stand on
\* is the past-the-end iterator, the same for every object.
IteratorAt(o, row) ==
  IF row = NullRow THEN NoIter ELSE [obj |-> o, at_end |-> FALSE]

\* A call without an argument worth recording.
Call(op, o, r, items) == CallArg(op, o, 0, r, items)

One(r) == IF r.exc = "none" /\ r.ret # NullRow THEN <<r.ret>> ELSE <<>>

All(r) == IF r.exc = "none" THEN r.ret ELSE <<>>

GetWarningCount(o) ==
  /\ Call("getWarningCount", o, getWarningCount(o), <<>>)
  /\ UNCHANGED iter

GetWarnings(o) ==
  /\ Call("getWarnings", o, getWarnings(o), <<>>)
  /\ UNCHANGED iter

GetWarning(o) ==
  /\ \E p \in 0..MaxWarn :
       CallArg("getWarning", o, p, getWarning(o, p), <<>>)
  /\ UNCHANGED iter

GetAffectedItemsCount(o) ==
  /\ kind = "Result"
  /\ Call("getAffectedItemsCount", o, Result_getAffectedItemsCount(o), <<>>)
  /\ UNCHANGED iter

GetAutoIncrementValue(o) ==
  /\ kind = "Result"
  /\ Call("getAutoIncrementValue", o, Result_getAutoIncrementValue(o), <<>>)
  /\ UNCHANGED iter

GetDocumentId(o) ==
  /\ kind = "Result"
  /\ Call("getDocumentId", o, Result_getDocumentId(o), <<>>)
  /\ UNCHANGED iter

GetDocumentIds(o) ==
  /\ kind = "Result"
  /\ Call("getDocumentIds", o, Result_getDocumentIds(o), <<>>)
  /\ UNCHANGED iter

SqlGetAffectedRowsCount(o) ==
  /\ kind = "SqlResult"
  /\ Call("getAffectedRowsCount", o, SqlResult_getAffectedRowsCount(o), <<>>)
  /\ UNCHANGED iter

SqlGetAutoIncrementValue(o) ==
  /\ kind = "SqlResult"
  /\ Call("getAutoIncrementValue", o, SqlResult_getAutoIncrementValue(o), <<>>)
  /\ UNCHANGED iter

GetColumnCount(o) ==
  /\ kind \in RowKinds
  /\ Call("getColumnCount", o, RowResult_getColumnCount(o), <<>>)
  /\ UNCHANGED iter

GetColumn(o) ==
  /\ kind \in RowKinds
  /\ \E i \in 0..MaxCols :
       CallArg("getColumn", o, i, RowResult_getColumn(o, i), <<>>)
  /\ UNCHANGED iter

GetColumns(o) ==
  /\ kind \in RowKinds
  /\ Call("getColumns", o, RowResult_getColumns(o), <<>>)
  /\ UNCHANGED iter

\* getColumns()[i]: the column set is taken from the result, then indexed.
ColumnsAt(o) ==
  /\ kind \in RowKinds
  /\ \E i \in 0..MaxCols :
       LET c == RowResult_getColumns(o) IN
         CallArg("Columns[]", o, i,
                 IF c.exc = "none"
                   THEN [Columns_at(c.ret, i) EXCEPT !.m_cols = c.m_cols]
                   ELSE c, <<>>)
  /\ UNCHANGED iter

FetchOne(o) ==
  /\ kind \in RowKinds
  /\ \E fault \in BOOLEAN :
       LET r == RowResult_fetchOne(o, fault) IN Call("fetchOne", o, r, One(r))
  /\ UNCHANGED iter

FetchAll(o) ==
  /\ kind \in RowKinds
  /\ \E fault \in BOOLEAN :
       LET r == RowResult_fetchAll(o, fault) IN Call("fetchAll", o, r, All(r))
  /\ UNCHANGED iter

Count(o) ==
  /\ kind \in RowKinds
  /\ \E fault \in BOOLEAN :
       Call("count", o, RowResult_count(o, fault), <<>>)
  /\ UNCHANGED iter

Begin(o) ==
  /\ kind \in RowKinds
  /\ \E fault \in BOOLEAN :
       LET r == RowResult_begin(o, fault) IN
         /\ Call("begin", o, r, One(r))
         /\ iter' = IF r.exc = "none"
                      THEN IteratorAt(o, r.ret)
                      ELSE iter

End(o) ==
  /\ kind \in RowKinds
  /\ Call("end", o, RowResult_end(o), <<>>)
  /\ UNCHANGED iter

\* ++it on the live iterator, which is not yet at the end.
IterInc ==
  /\ iter.obj # NULL
  /\ ~iter.at_end
  /\ \E fault \in BOOLEAN :
       LET r == iterator_inc(iter.obj, fault) IN
         /\ Call("++", iter.obj, r, One(r))
         /\ iter' = IF r.exc = "none"
                      THEN IteratorAt(iter.obj, r.ret)
                      ELSE iter

HasData(o) ==
  /\ kind = "SqlResult"
  /\ Call("hasData", o, SqlResult_hasData(o), <<>>)
  /\ UNCHANGED iter

\* What the server sent as the result a successful nextResult() moved to;
\* 0 when the call did not move to a result.
Arrived(r, nxt) == IF r.exc = "none" /\ r.ret = TRUE THEN nxt ELSE 0

NextResult(o) ==
  /\ kind = "SqlResult"
  /\ \E fault \in BOOLEAN, nxt \in AnyResults :
       LET r == SqlResult_nextResult(o, fault, nxt) IN
         CallArg("nextResult", o, Arrived(r, nxt), r, <<>>)
  /\ UNCHANGED iter

DocFetchOne(o) ==
  /\ kind = "DocResult"
  /\ \E fault \in BOOLEAN :
       LET r == DocResult_fetchOne(o, fault) IN Call("fetchOne", o, r, One(r))
  /\ UNCHANGED iter

DocFetchAll(o) ==
  /\ kind = "DocResult"
  /\ \E fault \in BOOLEAN :
       LET r == DocResult_fetchAll(o, fault) IN Call("fetchAll", o, r, All(r))
  /\ UNCHANGED iter

DocCount(o) ==
  /\ kind = "DocResult"
  /\ \E fault \in BOOLEAN :
       Call("count", o, DocResult_count(o, fault), <<>>)
  /\ UNCHANGED iter

DocBegin(o) ==
  /\ kind = "DocResult"
  /\ \E fault \in BOOLEAN :
       LET r == DocResult_begin(o, fault) IN
         /\ Call("begin", o, r, One(r))
         /\ iter' = IF r.exc = "none"
                      THEN IteratorAt(o, r.ret)
                      ELSE iter

DocEnd(o) ==
  /\ kind = "DocResult"
  /\ Call("end", o, DocResult_end(o), <<>>)
  /\ UNCHANGED iter

\* The caller sees the outcome r of moving src into dst.
Moved(op, dst, src, r) ==
  /\ m_impl' = r.m_impl
  /\ alive' = r.alive
  /\ heap' = r.heap
  /\ m_cols' = r.m_cols
  /\ cur' = r.cur
  /\ res' = r.res
  /\ pos' = r.pos
  /\ m_cache' = r.m_cache
  /\ last' = [op |-> op, obj |-> dst, arg |-> 0, exc |-> r.exc, ret |-> src,
              taken |-> IF r.alive THEN 0 ELSE pos,
              dropped |-> IF r.alive THEN 0 ELSE res.rows - pos]
  /\ delivered' = IF r.alive THEN delivered ELSE <<>>
  /\ UNCHANGED <<kind, nres, warn, iter>>

\* dst = std::move(src)
MoveAssign(dst, src) ==
  /\ dst # src
  /\ Moved("move=", dst, src, Result_common_assign(dst, src))

\* T dst(std::move(src)): dst is a new object
MoveConstruct(dst, src) ==
  /\ dst # src
  /\ ~HasImpl(dst)
  /\ Moved("move", dst, src, Result_common_move_ctor(dst, src))

\* o goes out of scope: its destructor runs.  The name then stands for a
\* new, default-constructed object, and the iterators made from the old
\* one are gone with it.
Destroy(o) ==
  /\ LET r == Result_common_dtor(o) IN
       /\ m_impl' = [r.m_impl EXCEPT ![o] = Result_common_default]
       /\ alive' = r.alive
       /\ heap' = r.heap
       /\ m_cols' = r.m_cols
       /\ cur' = r.cur
       /\ res' = r.res
       /\ pos' = r.pos
       /\ m_cache' = r.m_cache
       /\ last' = [op |-> "destroy", obj |-> o, arg |-> 0, exc |-> r.exc, ret |-> NullRow,
                   taken |-> IF HasImpl(o) THEN pos ELSE 0,
                   dropped |-> IF HasImpl(o) THEN res.rows - pos ELSE 0]
       /\ delivered' = IF HasImpl(o) THEN <<>> ELSE delivered
  /\ iter' = IF iter.obj = o THEN NoIter ELSE iter
  /\ UNCHANGED <<kind, nres, warn>>

\* dst = op.execute(): the result of another execution is stored in dst,
\* while no other object holds a result.  The new reply has as many results
\* and warnings as the one before; its first result is any.
StoreNew(dst) ==
  /\ \A o \in Objs \ {dst} : ~HasImpl(o)
  /\ \E first \in FirstResults(kind) :
       LET r == Result_common_assign_init(dst, first) IN
         /\ m_impl' = r.m_impl
         /\ alive' = r.alive
         /\ heap' = r.heap
         /\ m_cols' = r.m_cols
         /\ cur' = r.cur
         /\ res' = r.res
         /\ pos' = r.pos
         /\ m_cache' = r.m_cache
         /\ last' = [op |-> "store", obj |-> dst, arg |-> 0, exc |-> r.exc, ret |-> NullRow,
                     taken |-> IF HasImpl(dst) THEN pos ELSE 0,
                     dropped |-> IF HasImpl(dst) THEN res.rows - pos ELSE 0]
  /\ delivered' = <<>>
  /\ iter' = IF iter.obj = dst THEN NoIter ELSE iter
  /\ UNCHANGED <<kind, nres, warn>>

Next ==
  \/ \E o \in Objs : GetWarningCount(o)
  \/ \E o \in Objs : GetWarnings(o)
  \/ \E o \in Objs : GetWarning(o)
  \/ \E o \in Objs : GetAffectedItemsCount(o)
  \/ \E o \in Objs : GetAutoIncrementValue(o)
  \/ \E o \in Objs : GetDocumentId(o)
  \/ \E o \in Objs : GetDocumentIds(o)
  \/ \E o \in Objs : SqlGetAffectedRowsCount(o)
  \/ \E o \in Objs : SqlGetAutoIncrementValue(o)
  \/ \E o \in Objs : GetColumnCount(o)
  \/ \E o \in Objs : GetColumn(o)
  \/ \E o \in Objs : GetColumns(o)
  \/ \E o \in Objs : ColumnsAt(o)
  \/ \E o \in Objs : FetchOne(o)
  \/ \E o \in Objs : FetchAll(o)
  \/ \E o \in Objs : Count(o)
  \/ \E o \in Objs : Begin(o)
  \/ \E o \in Objs : End(o)
  \/ IterInc
  \/ \E o \in Objs : HasData(o)
  \/ \E o \in Objs : NextResult(o)
  \/ \E o \in Objs : DocFetchOne(o)
  \/ \E o \in Objs : DocFetchAll(o)
  \/ \E o \in Objs : DocCount(o)
  \/ \E o \in Objs : DocBegin(o)
  \/ \E o \in Objs : DocEnd(o)
  \/ \E dst, src \in Objs : MoveAssign(dst, src)
  \/ \E dst, src \in Objs : MoveConstruct(dst, src)
  \/ \E o \in Objs : Destroy(o)
  \/ \E dst \in Objs : StoreNew(dst)

Spec == Init /\ [][Next]_vars

\* ------------------------------------------------------------ properties
IsRowClass == kind \in RowKinds

\* C1: whatever mix of fetchOne(), fetchAll() and iterator steps produced
\* them, the rows the caller got from the current result are r1..rk in
\* server order for some k <= N, each exactly once, and k is the one cursor
\* position all three access modes advance.
C1_AtMostOnceInOrder ==
  IsRowClass =>
    /\ Len(delivered) <= res.rows
    /\ \A i \in 1..Len(delivered) : delivered[i] = Row(cur, i)
    /\ Len(delivered) = pos

\* Rows were handed out by the iterator and then by fetchAll().
C1_Witness ==
  /\ IsRowClass
  /\ iter.obj # NULL
  /\ ~iter.at_end
  /\ last.op = "fetchAll"
  /\ last.exc = "none"
  /\ Len(last.ret) >= 1
  /\ Len(delivered) > Len(last.ret)

\* A fetchAll() on the object of the last call would return an empty list.
FetchAllGivesNothing ==
  \A fault \in BOOLEAN : RowResult_fetchAll(last.obj, fault) = Returns(<<>>)

\* C2: fetchAll() called when k rows were consumed returns r(k+1)..rN in
\* order, leaves the cursor exhausted, and a fetchAll() after it returns an
\* empty list.
C2_FetchAllRemaining ==
  [][(IsRowClass /\ last'.op = "fetchAll" /\ last'.exc = "none") =>
       /\ last'.ret = Rows(cur, Len(delivered), res.rows)
       /\ pos' = res.rows
       /\ cur' = cur
       /\ FetchAllGivesNothing']_vars

\* fetchAll() returned at least two rows after one or more were consumed.
C2_Witness ==
  /\ IsRowClass
  /\ last.op = "fetchAll"
  /\ last.exc = "none"
  /\ Len(last.ret) >= 2
  /\ Len(delivered) > Len(last.ret)

\* C3: count() returns the number of rows of the current result minus the
\* number of rows already fetched, whether or not all rows were buffered.
C3_CountRemaining ==
  (IsRowClass /\ last.op = "count" /\ last.exc = "none") =>
    last.ret = res.rows - Len(delivered)

\* count() was called after one fetch, when the server still held a row that
\* had not been read: the row buffered last is the last row of the result.
C3_Witness ==
  /\ IsRowClass
  /\ last.op = "count"
  /\ last.exc = "none"
  /\ Len(delivered) = 1
  /\ res.rows = MaxRows
  /\ last.ret = MaxRows - 1

\* C4: fetchOne() returns the current row and advances by one while rows
\* remain, and returns the null Row, leaving the cursor exhausted, exactly
\* when none remains.
C4_FetchOne ==
  [][(IsRowClass /\ last'.op = "fetchOne" /\ last'.exc = "none") =>
       IF pos < res.rows
         THEN last'.ret = Row(cur, pos + 1) /\ pos' = pos + 1
         ELSE last'.ret = NullRow /\ pos' = res.rows]_vars

\* fetchOne() returned the null Row after all N rows were handed out.
C4_Witness ==
  /\ IsRowClass
  /\ last.op = "fetchOne"
  /\ last.exc = "none"
  /\ last.ret = NullRow
  /\ res.rows = MaxRows
  /\ Len(delivered) = MaxRows

\* A fetchAll() on the object of the last call would return every row of the
\* current result, from the first one.
FetchAllGivesEverything ==
  RowResult_fetchAll(last.obj, FALSE).ret = Rows(cur, 0, res.rows)

\* C5: nextResult() drops the rows of the result it leaves that were not
\* fetched: no row the caller gets afterwards is a row of a result already
\* left, nothing of it stays buffered, and the rows of the next result are
\* all there, from its first row.
C5_NextResultDiscards ==
  [][/\ \A i \in 1..Len(delivered') : delivered'[i][1] = cur'
     /\ (kind = "SqlResult" /\ last'.op = "nextResult" /\ last'.exc = "none"
           /\ last'.ret = TRUE) =>
          /\ cur' = cur + 1
          /\ pos' = 0
          /\ m_cache' = <<>>
          /\ res'.data => FetchAllGivesEverything']_vars

\* nextResult() left a result of which some rows were fetched and others
\* not, for a result with rows.
C5_Witness ==
  /\ kind = "SqlResult"
  /\ last.op = "nextResult"
  /\ last.exc = "none"
  /\ last.ret = TRUE
  /\ last.taken >= 1
  /\ last.dropped >= 1
  /\ res.rows >= 1

\* C6: nextResult() returns true exactly when the reply holds another
\* result: it has just returned true iff a result is current now, so a
\* reply of M results gives true M-1 times and then false.
C6_NextResultValue ==
  (kind = "SqlResult" /\ last.op = "nextResult" /\ last.exc = "none") =>
    /\ last.ret = (cur <= nres)
    /\ cur >= 2

\* nextResult() returned false after the last of MaxResults results.
C6_Witness ==
  /\ kind = "SqlResult"
  /\ nres = MaxResults
  /\ last.op = "nextResult"
  /\ last.exc = "none"
  /\ last.ret = FALSE
  /\ cur = nres + 1

RowAccessors ==
  {"fetchOne", "fetchAll", "count", "begin", "getColumnCount", "getColumn"}

\* C7: a row accessor of a SqlResult reports the no-data error exactly when
\* hasData() is false for the object it is called on.
C7_NoDataIsAnError ==
  (kind = "SqlResult" /\ last.op \in RowAccessors) =>
    /\ ~SqlResult_hasData(last.obj).ret => last.exc = "InvalidState"
    /\ SqlResult_hasData(last.obj).ret => last.exc # "InvalidState"

\* getColumnCount() was called on a result of the reply that has no rows.
C7_Witness ==
  /\ kind = "SqlResult"
  /\ HasImpl(last.obj)
  /\ cur <= nres
  /\ ~res.data
  /\ last.op = "getColumnCount"
  /\ last.exc = "InvalidState"

\* What the caller sees of an outcome: the error or the value.
Seen(r) == <<r.exc, r.ret>>

\* What the accessors of the class of o report when called on o.
AccessorErrors(o) ==
  IF kind \in RowKinds
    THEN {RowResult_fetchOne(o, f).exc : f \in BOOLEAN}
         \cup {RowResult_fetchAll(o, f).exc : f \in BOOLEAN}
         \cup {RowResult_count(o, f).exc : f \in BOOLEAN}
         \cup {RowResult_begin(o, f).exc : f \in BOOLEAN}
         \cup {RowResult_getColumn(o, i).exc : i \in 0..MaxCols}
         \cup {RowResult_getColumnCount(o).exc}
  ELSE IF kind = "DocResult"
    THEN {DocResult_fetchOne(o, f).exc : f \in BOOLEAN}
         \cup {DocResult_fetchAll(o, f).exc : f \in BOOLEAN}
         \cup {DocResult_count(o, f).exc : f \in BOOLEAN}
         \cup {DocResult_begin(o, f).exc : f \in BOOLEAN}
  ELSE {}

\* C8: a result object without an implementation (default-constructed) has
\* no warnings and no data, and each of its row or document accessors
\* reports InvalidState.
C8_DefaultIsInert ==
  \A o \in Objs :
    m_impl[o] = Result_common_default =>
      /\ getWarningCount(o).exc = "none"
      /\ getWarningCount(o).ret = 0
      /\ kind = "SqlResult" => Seen(SqlResult_hasData(o)) = <<"none", FALSE>>
      /\ AccessorErrors(o) \subseteq {"InvalidState"}
      /\ (last.obj = o /\ last.op \in RowAccessors) => last.exc = "InvalidState"
      /\ (last.obj = o /\ last.op = "getWarningCount") =>
           last.exc = "none" /\ last.ret = 0

\* getWarningCount() was called on the default-constructed object while the
\* other object holds a reply with warnings.
C8_Witness ==
  /\ HasImpl("a")
  /\ ~HasImpl("b")
  /\ warn >= 1
  /\ last.obj = "b"
  /\ last.op = "getWarningCount"
  /\ last.ret = 0

\* What a caller can observe of o: warnings, data, remaining rows, next row.
Observed(o) ==
  IF kind \in RowKinds
    THEN <<Seen(getWarningCount(o)), Seen(SqlResult_hasData(o)),
           Seen(RowResult_count(o, FALSE)), Seen(RowResult_fetchOne(o, FALSE)),
           Seen(RowResult_fetchAll(o, FALSE)), Seen(RowResult_getColumnCount(o))>>
  ELSE IF kind = "DocResult"
    THEN <<Seen(getWarningCount(o)), Seen(DocResult_count(o, FALSE)),
           Seen(DocResult_fetchOne(o, FALSE)), Seen(DocResult_fetchAll(o, FALSE))>>
  ELSE <<Seen(getWarningCount(o))>>

ObservedOfDestination == Observed(last.obj)

SourceIsEmpty == m_impl[last.ret] = Result_common_default

\* C9: a move leaves the source without an implementation, as a
\* default-constructed object, and the destination observes what the source
\* observed before the move: warnings, remaining row count, next row.
C9_MovePreserves ==
  [][\A dst, src \in Objs :
       (last'.op \in {"move", "move="} /\ last'.obj = dst /\ last'.ret = src) =>
         /\ SourceIsEmpty'
         /\ ObservedOfDestination' = Observed(src)]_vars

\* A result was move-assigned after one row of several was fetched.
C9_Witness ==
  /\ last.op = "move="
  /\ HasImpl(last.obj)
  /\ ~HasImpl(last.ret)
  /\ warn >= 1
  /\ pos >= 1
  /\ pos < res.rows

FetchOps == {"fetchOne", "fetchAll", "begin", "++"}

\* The next row a fetchOne() on the object of the last call would return.
NextRow ==
  IF kind = "DocResult" THEN DocResult_fetchOne(last.obj, FALSE).ret
  ELSE RowResult_fetchOne(last.obj, FALSE).ret

\* C10: a fetch that fails with a fault of the layer below changes neither
\* the cursor position nor what the caller has received, and the row it
\* failed to fetch is the one the next successful fetch returns.
C10_FailedFetchKeepsPosition ==
  [][(last'.op \in FetchOps /\ last'.exc = "Propagated") =>
       /\ cur' = cur
       /\ pos' = pos
       /\ delivered' = delivered
       /\ pos < res.rows
       /\ NextRow' = Row(cur, pos + 1)]_vars

\* fetchAll() failed while a row was buffered and another still to be read.
C10_Witness ==
  /\ last.op = "fetchAll"
  /\ last.exc = "Propagated"
  /\ m_cache # <<>>
  /\ pos + Len(m_cache) < res.rows

\* C11: every implementation object that was created and not yet released
\* is held by exactly one existing result object: destroying a result or
\* storing another result over it releases the handle it held, whatever the
\* number of rows left unfetched.
C11_HandleReleased ==
  /\ heap = Cardinality({o \in Objs : HasImpl(o)})
  /\ heap <= 1
  /\ alive = (heap > 0)

\* A result with fetched and unfetched rows was overwritten by the result
\* of another operation.
C11_Witness ==
  /\ last.op = "store"
  /\ last.taken >= 1
  /\ last.dropped >= 1
  /\ HasImpl(last.obj)

\* The number of warnings the object of the last call reports.
WarningCountOfLast == getWarningCount(last.obj).ret

ColumnCountOfLast == RowResult_getColumnCount(last.obj)

\* The kind of an error, whether it comes out of the facade as the lower
\* layer threw it or as a facade method reported it.
KindOf(e) == IF e \in {RawInvalidState, RawOutOfRange, RawFault} THEN Wrap(e) ELSE e

ScalarOps ==
  {"getAffectedItemsCount", "getAffectedRowsCount", "getAutoIncrementValue",
   "getDocumentId", "getDocumentIds"}

NormalizedKinds ==
  {"OutOfRange", "InvalidState", "ProtocolInconsistency", "Propagated"}

\* pub, the outcome of a facade method, reports what low, the outcome of
\* the Base method it calls, came to: an error of a normalized kind exactly
\* when low threw, of the kind of what low threw, with the cursor where low
\* left it (the call was made once).
Normalizes(pub, low) ==
  /\ pub.exc \in NormalizedKinds \cup {"none"}
  /\ (pub.exc = "none") = (low.exc = "none")
  /\ pub.exc = KindOf(low.exc)
  /\ [pub EXCEPT !.exc = low.exc] = low

\* The operations of the result classes, as recorded by the calls made.
\* Columns::operator[] and the iterator's ++ are operations of other classes.
ResultOps ==
  {"getWarningCount", "getWarnings", "getWarning", "getColumnCount",
   "getColumn", "getColumns", "fetchOne", "fetchAll", "count", "begin",
   "end", "hasData", "nextResult", "move", "move=", "destroy", "store"}
    \cup ScalarOps

\* C15: a call of a public operation of Result, RowResult, SqlResult or
\* DocResult ends without an error or with one of the four normalized
\* kinds, and each operation that pulls data from the server fails exactly
\* when the lower layer does, once, with the error the lower layer threw
\* turned into its normalized kind.
C15_ErrorsNormalized ==
  /\ last.op \in ResultOps => last.exc \in NormalizedKinds \cup {"none"}
  /\ \A o \in Objs, fault \in BOOLEAN :
       /\ kind \in RowKinds =>
            /\ Normalizes(RowResult_fetchOne(o, fault), get_row(o, fault))
            /\ Normalizes(RowResult_fetchAll(o, fault), get_rows(o, fault))
            /\ Normalizes(RowResult_count(o, fault), row_count(o, fault))
            /\ Normalizes(RowResult_begin(o, fault), row_begin(o, fault))
       /\ kind = "DocResult" =>
            /\ Normalizes(DocResult_fetchOne(o, fault), get_doc(o, fault))
            /\ Normalizes(DocResult_fetchAll(o, fault), get_docs(o, fault))
            /\ Normalizes(DocResult_count(o, fault), doc_count(o, fault))
            /\ Normalizes(DocResult_begin(o, fault), doc_begin(o, fault))
       /\ kind = "SqlResult" =>
            \A nxt \in AnyResults :
              Normalizes(SqlResult_nextResult(o, fault, nxt),
                         next_result(o, fault, nxt))

\* A fetchOne() that had to read from the server failed there, and the
\* caller saw the failure as Propagated.
C15_Witness ==
  /\ last.op = "fetchOne"
  /\ last.exc = "Propagated"
  /\ get_row(last.obj, TRUE).exc = RawFault
  /\ res.rows >= 1

\* The calls that read column metadata or fetch a row.
ColumnSetOps ==
  {"getColumnCount", "getColumn", "getColumns", "Columns[]",
   "fetchOne", "fetchAll", "begin", "++"}

\* What getColumnCount() and getColumns() report on the object of the
\* last call.
ColumnsSeen ==
  <<Seen(RowResult_getColumnCount(last.obj)), Seen(RowResult_getColumns(last.obj))>>

\* C16: the column set of a row result is initialised by the first call
\* that reads column metadata or fetches a row and by no other call; once
\* initialised it stays as it is for as long as the result is the current
\* one, and getColumnCount() and getColumns() report its length and its
\* columns, which are those of the current result in the result's order.
C16_ColumnSetOnce ==
  [][IsRowClass =>
       /\ (m_cols.init /\ alive /\ alive' /\ cur' = cur /\ last'.op # "store")
            => m_cols' = m_cols
       /\ (~m_cols.init /\ m_cols'.init) => last'.op \in ColumnSetOps
       /\ (last'.op \in ColumnSetOps /\ last'.exc = "none") =>
            m_cols' = Columns_detail_init(cur)
       /\ (last'.op \in {"getColumnCount", "getColumns"} /\ last'.exc = "none") =>
            ColumnsSeen' = <<<<"none", Len(m_cols'.cols)>>, <<"none", m_cols'.cols>>>>]_vars

\* On the second result of a reply, after a row was fetched, the column
\* count is the one of the column set made for that result.
C16_Witness ==
  /\ IsRowClass
  /\ cur = 2
  /\ pos >= 1
  /\ m_cols = Columns_detail_init(2)
  /\ last.op = "getColumnCount"
  /\ last.exc = "none"
  /\ last.ret = Len(m_cols.cols)

\* C17: end() of a RowResult or a DocResult changes nothing of the cursor:
\* the position, the rows buffered and the rows handed out stay as they
\* were, and for every object count(), the next fetchOne() and the next
\* fetchAll() give what they would have given before the call.
C17_EndKeepsCursor ==
  [][last'.op = "end" =>
       /\ cur' = cur
       /\ pos' = pos
       /\ m_cache' = m_cache
       /\ delivered' = delivered
       /\ \A o \in Objs : Observed(o)' = Observed(o)]_vars

\* end() was called between two rows of a result, with a row buffered.
C17_Witness ==
  /\ last.op = "end"
  /\ last.exc = "none"
  /\ last.ret = NoIter
  /\ HasImpl(last.obj)
  /\ pos >= 1
  /\ pos < res.rows
  /\ m_cache # <<>>

\* What the outcome accessors of a SqlResult report on the object of the
\* last call.
SqlScalarsSeen ==
  <<Seen(SqlResult_getAffectedRowsCount(last.obj)),
    Seen(SqlResult_getAutoIncrementValue(last.obj))>>

\* C18: in a SqlResult, getAffectedRowsCount() and getAutoIncrementValue()
\* return the values of the current result of the reply: right after a
\* successful nextResult() they are the values the server sent with the
\* result moved to, and each call of them returns the values of the result
\* that is current when it is made.
C18_ScalarsFollowResult ==
  kind = "SqlResult" =>
    /\ (last.op = "nextResult" /\ last.exc = "none" /\ last.ret = TRUE) =>
         SqlScalarsSeen =
           <<<<"none", last.arg.affected>>, <<"none", last.arg.autoinc>>>>
    /\ (last.op = "getAffectedRowsCount" /\ HasImpl(last.obj)) =>
         last.exc = "none" /\ last.ret = res.affected
    /\ (last.op = "getAutoIncrementValue" /\ HasImpl(last.obj)) =>
         last.exc = "none" /\ last.ret = res.autoinc

\* The affected-rows count was read on the second result of a reply, an
\* update of one row without auto-increment value.
C18_Witness ==
  /\ kind = "SqlResult"
  /\ cur = 2
  /\ HasImpl(last.obj)
  /\ last.op = "getAffectedRowsCount"
  /\ last.exc = "none"
  /\ last.ret = 1
  /\ SqlScalarsSeen = <<<<"none", 1>>, <<"none", 0>>>>

\* What a cursor operation came to: its error, its value and the cursor
\* it leaves, whatever it did to a column set.
CursorOutcome(r) == <<r.exc, r.ret, r.cur, r.res, r.pos, r.m_cache>>

Exhausted == IsRowClass /\ alive /\ res.data /\ pos = res.rows

\* On the object that holds the result, with or without a failure of the
\* layer below to come, fetchOne() gives the null Row, fetchAll() no row,
\* count() 0 and begin() the iterator end() gives, and none of them moves
\* the cursor.
NothingLeft ==
  \A o \in Objs : HasImpl(o) =>
    \A fault \in BOOLEAN :
      /\ Seen(RowResult_fetchOne(o, fault)) = <<"none", NullRow>>
      /\ Seen(RowResult_fetchAll(o, fault)) = <<"none", <<>>>>
      /\ Seen(RowResult_count(o, fault)) = <<"none", 0>>
      /\ Seen(RowResult_begin(o, fault)) = <<"none", NullRow>>
      /\ IteratorAt(o, RowResult_begin(o, fault).ret) = RowResult_end(o).ret
      /\ RowResult_fetchOne(o, fault).pos = pos
      /\ RowResult_fetchAll(o, fault).pos = pos
      /\ RowResult_begin(o, fault).pos = pos

\* C20: a result whose rows have all been taken stays so under every call
\* until nextResult() moves to another result or the object gives the
\* result up (it is destroyed or another result is stored in it), and as
\* long as it is so nothing is left to fetch, to count or to iterate over.
C20_ExhaustedAbsorbing ==
  /\ [][(Exhausted /\ alive' /\ cur' = cur /\ last'.op # "store")
         => Exhausted']_vars
  /\ [](Exhausted => NothingLeft)

\* After every row of a result of several rows was handed out, count()
\* returned 0.
C20_Witness ==
  /\ Exhausted
  /\ res.rows >= 2
  /\ Len(delivered) = res.rows
  /\ last.op = "count"
  /\ last.exc = "none"
  /\ last.ret = 0

====
